---- MODULE Spec2Model ----
(***************************************************************************)
(* Worklog import of Tempo Booker: a file of time entries is reconciled    *)
(* against the worklogs of the remote Tempo store                          *)
(* (timeTrackingController.importWorklogs and what it calls).              *)
(*                                                                         *)
(* Time of day is counted in units of 7.5 minutes (450 s) from 09:00:00,   *)
(* so that a quarter of an hour is UnitsPerQuarter units and the rounding  *)
(* of a duration to the nearest quarter is visible.  Dates are day         *)
(* numbers.  A duration ("hours", "timeSpentSeconds") is counted in the    *)
(* same units.  The text of a time of the file is its value together with  *)
(* its form: "HH:mm:ss", a form only a forgiving parse accepts such as     *)
(* "H:mm:ss", or no time at all.                                           *)
(***************************************************************************)
EXTENDS Integers, Sequences, FiniteSets, TLC

VARIABLES
  format,    \* extension of the import file: "csv" or "json"
  rows,      \* the rows of the import file
  remote,    \* the worklogs held by the remote store
  nextId,    \* the tempoWorklogId the store gives to the next created worklog
  cache,     \* StaticIssueResolver.cache: the issue keys resolved so far
  lookups,   \* how often the resolver read config.issueMapping, by issue key
  pc,        \* position of the import run
  batch,     \* worklogsData: the entries parsed from the file
  author,    \* authorAccountId determined by executeWorklogOperations
  snapshot,  \* existingWorklogs.results handed to the classifier
  ops,       \* operations returned by categorizeWorklogOperations
  idx,       \* position in the bag being executed
  sub,       \* position in the delete list of the replace being executed
  calls,     \* the calls made to tempoApiService in this run, in order
  result,    \* how importWorklogs returned: "none", "ok", "error"
  budget,    \* failures the remote side may still produce
  counts,    \* successCount and failureCount of each executor of this run
  run,       \* number of the import run
  firstRun   \* what the previous run left: its calls and outcome

vars == <<format, rows, remote, nextId, cache, lookups, pc, batch, author,
          snapshot, ops, idx, sub, calls, result, budget, counts, run, firstRun>>

---------------------------------------------------------------------------
(* Bounds of the model *)

MaxTime == 2       \* times of day of the file are 0..MaxTime
MaxBatch == 2      \* rows in the import file
MaxRemote == 2     \* worklogs in the store before the run
MaxDur == 2        \* duration of a worklog of the store before the run
MaxFail == 1       \* remote failures per behaviour
MaxRuns == 2       \* imports of the same file in a row

(* Program constants *)

UnitsPerQuarter == 2       \* Math.round(hours * 4) / 4
DefaultStartTime == 0      \* "09:00:00"
UndeletableBelow == 1374000
YearCutoff == 2            \* day number of `${minimumYear}-01-01`
HardCutoff == 2            \* day number of the literal "2025-01-01"
RecentFrom == 3            \* day number of moment().subtract(3, "days")

None == "none"            \* an absent string (undefined, null)
NoId == 0                  \* an absent number
NoStart == -1              \* a worklog of the store without startTime
SystemUser == "__tempo-io__unknown_user"
ConfigUserAccountId == "me"
ApiUserAccountId == "me"
Unknown == "UNKNOWN"

\* config.issueMapping: issue key -> numeric id
IssueMapping == ("ITST-1" :> 101)

---------------------------------------------------------------------------
(* Sequences *)

RECURSIVE SortById(_)
\* the worklogs of a set in ascending tempoWorklogId order
SortById(S) ==
  IF S = {} THEN <<>>
  ELSE LET m == CHOOSE w \in S : \A v \in S : w.tempoWorklogId <= v.tempoWorklogId
       IN <<m>> \o SortById(S \ {m})

Range(s) == {s[i] : i \in 1..Len(s)}

---------------------------------------------------------------------------
(* staticIssueResolver.resolveIssue: the id of a key, or None *)

resolveIssue(issueKey) ==
  IF issueKey \in DOMAIN IssueMapping THEN IssueMapping[issueKey] ELSE NoId

\* a resolver that never finds a key in its cache
cacheHasNever(issueKey) == FALSE

\* this.cache.has(issueKey)
cacheHas(issueKey) == issueKey \in cache

(* staticIssueResolver.resolveIssue as a step: a key of the cache is       *)
(* answered from the cache; any other key is looked up in                  *)
(* config.issueMapping, and the result is put in the cache when the key is *)
(* found there                                                             *)
ResolveIssueStatic(issueKey) ==
  /\ lookups' = IF cacheHas(issueKey) THEN lookups
                ELSE [lookups EXCEPT ![issueKey] = @ + 1]
  /\ cache' = IF resolveIssue(issueKey) # NoId THEN cache \cup {issueKey}
              ELSE cache

(* The issue key a description mentions: match(/([A-Z]+-\d+)/) *)
DescKey(description) ==
  CASE description = "see ITST-2" -> "ITST-2"
    [] OTHER -> None

(* extractIssueKeyFromWorklog *)
extractIssueKeyFromWorklog(worklog) ==
  IF worklog.issueKey # None THEN worklog.issueKey
  ELSE IF DescKey(worklog.description) # None THEN DescKey(worklog.description)
  ELSE IF \E k \in DOMAIN IssueMapping : IssueMapping[k] = worklog.issueId
       THEN CHOOSE k \in DOMAIN IssueMapping : IssueMapping[k] = worklog.issueId
  ELSE IF worklog.description = "Team Daily" THEN "DAU-2655"
  ELSE Unknown

---------------------------------------------------------------------------
(* normalizeWorklogData: <<entry>> for a row of the file, <<>> for null *)

\* moment(text, "YYYY-MM-DD HH:mm:ss") and moment(text, "HH:mm:ss", true):
\* the forms of a time that the forgiving and the strict parse accept
StrictForm == "HH:mm:ss"
LooseForm == "H:mm:ss"
BadForm == "text"

momentValid(form) == form \in {StrictForm, LooseForm}

momentStrictValid(form) == form = StrictForm

RoundToQuarter(d) == UnitsPerQuarter * ((d + (UnitsPerQuarter \div 2)) \div UnitsPerQuarter)

\* a test of the column for any text at all: `if (data.delete)`
IsDeleteValueAnyText(v) == v # ""

IsDeleteValue(v) == v = "true" \/ v = "1" \/ v = "yes"

normalizeWorklogData(data) ==
  LET shouldDelete == IsDeleteValue(data.delete)
      hours == IF data.endTime <= data.startTime THEN -1
               ELSE RoundToQuarter(data.endTime - data.startTime)
      normalized == [issueKey |-> data.issue,
                     hours |-> hours,
                     description |-> data.description,
                     startDate |-> data.date,
                     startTime |-> data.startTime,
                     endTime |-> data.endTime,
                     form |-> data.form,
                     shouldDelete |-> shouldDelete]
  IN IF ~momentValid(data.form) THEN <<>>
     ELSE IF data.endTime <= data.startTime THEN <<>>
     ELSE IF data.issue = "" \/ (~shouldDelete /\ hours <= 0) THEN <<>>
     ELSE <<normalized>>

(* The entry a JSON file gives for a row: JSON.parse, no normalisation *)
jsonEntry(data) ==
  [issueKey |-> data.issue,
   hours |-> data.hours,
   description |-> data.description,
   startDate |-> data.date,
   startTime |-> data.startTime,
   endTime |-> data.endTime,
   form |-> data.form,
   shouldDelete |-> IsDeleteValue(data.delete)]

\* an overlap test that counts a shared end point as an overlap
overlapsClosed(aStart, aEnd, bStart, bEnd) == aStart <= bEnd /\ bStart <= aEnd

\* an overlap test that holds only when the first range starts first
overlapsFromFirst(aStart, aEnd, bStart, bEnd) ==
  aStart < bEnd /\ bStart < aEnd /\ aStart <= bStart

(* Overlap of two ranges, as every check of the controller computes it *)
overlaps(aStart, aEnd, bStart, bEnd) == aStart < bEnd /\ bStart < aEnd

\* a conflict check that takes the entries to be in order of start time: a
\* later entry conflicts only when it starts inside an earlier one
validateTimeConflictsSorted(worklogs) ==
  LET checked == {i \in 1..Len(worklogs) : ~worklogs[i].shouldDelete}
  IN Cardinality({p \in checked \X checked :
        /\ p[1] < p[2]
        /\ worklogs[p[1]].startDate = worklogs[p[2]].startDate
        /\ worklogs[p[1]].startTime <= worklogs[p[2]].startTime
        /\ worklogs[p[2]].startTime < worklogs[p[1]].endTime})

(* validateTimeConflicts, first part: the number of entries whose times the *)
(* strict parse refuses or whose end is not after its start                *)
invalidEntries(worklogs) ==
  Cardinality({i \in 1..Len(worklogs) :
     \/ ~momentStrictValid(worklogs[i].form)
     \/ ~(worklogs[i].endTime > worklogs[i].startTime)})

\* a conflict check that passes over two entries with the same start and
\* the same end
validateTimeConflictsNotIdentical(worklogs) ==
  LET checked == {i \in 1..Len(worklogs) : ~worklogs[i].shouldDelete}
  IN Cardinality({p \in checked \X checked :
        /\ p[1] < p[2]
        /\ worklogs[p[1]].startDate = worklogs[p[2]].startDate
        /\ overlaps(worklogs[p[1]].startTime, worklogs[p[1]].endTime,
                    worklogs[p[2]].startTime, worklogs[p[2]].endTime)
        /\ ~(/\ worklogs[p[1]].startTime = worklogs[p[2]].startTime
             /\ worklogs[p[1]].endTime = worklogs[p[2]].endTime)})

(* validateTimeConflicts: the number of conflicts among the entries *)
validateTimeConflicts(worklogs) ==
  LET checked == {i \in 1..Len(worklogs) : ~worklogs[i].shouldDelete}
  IN Cardinality({p \in checked \X checked :
        /\ p[1] < p[2]
        /\ worklogs[p[1]].startDate = worklogs[p[2]].startDate
        /\ overlaps(worklogs[p[1]].startTime, worklogs[p[1]].endTime,
                    worklogs[p[2]].startTime, worklogs[p[2]].endTime)})

(* parseCSV: the entries of the rows that normalise *)
parseCSV(rs) ==
  LET RECURSIVE go(_)
      go(s) == IF s = <<>> THEN <<>>
               ELSE normalizeWorklogData(Head(s)) \o go(Tail(s))
  IN go(rs)

---------------------------------------------------------------------------
(* The filter of executeWorklogOperations on the fetched worklogs *)

isUserWorklog(w, authorAccountId) == w.author = authorAccountId

\* the filter without its first test, the one on the system user
keepRecentNoSystemTest(w, authorAccountId) ==
  IF w.startDate < YearCutoff THEN FALSE
  ELSE isUserWorklog(w, authorAccountId) \/ w.startDate >= RecentFrom

keepRecent(w, authorAccountId) ==
  IF w.author = SystemUser THEN FALSE
  ELSE IF w.startDate < YearCutoff THEN FALSE
  ELSE isUserWorklog(w, authorAccountId) \/ w.startDate >= RecentFrom

recentWorklogs(results, authorAccountId) ==
  SelectSeq(results, LAMBDA w : keepRecent(w, authorAccountId))

---------------------------------------------------------------------------
(* validateAgainstExistingWorklogs and the test validateWorklogsForImport  *)
(* makes on what it returns                                                *)

\* the returned object {overlaps, conflicts}: an overlap is a pair of an
\* entry's position and a worklog's id
validateAgainstExistingWorklogs(importWorklogs, existingWorklogs) ==
  LET isExactSameEntry(importWL, existingWL) ==
        /\ importWL.startTime =
             (IF existingWL.startTime # NoStart THEN existingWL.startTime
              ELSE DefaultStartTime)
        /\ importWL.endTime =
             (IF existingWL.startTime # NoStart THEN existingWL.startTime
              ELSE DefaultStartTime) + existingWL.timeSpent
        /\ importWL.issueKey = extractIssueKeyFromWorklog(existingWL)
      found(i) ==
        SelectSeq(existingWorklogs, LAMBDA existingWL :
           /\ ~importWorklogs[i].shouldDelete
           /\ importWorklogs[i].startDate = existingWL.startDate
           /\ overlaps(importWorklogs[i].startTime, importWorklogs[i].endTime,
                       IF existingWL.startTime # NoStart THEN existingWL.startTime
                       ELSE DefaultStartTime,
                       (IF existingWL.startTime # NoStart THEN existingWL.startTime
                        ELSE DefaultStartTime) + existingWL.timeSpent)
           /\ ~isExactSameEntry(importWorklogs[i], existingWL))
      RECURSIVE from(_)
      from(i) ==
        IF i > Len(importWorklogs) THEN <<>>
        ELSE [j \in 1..Len(found(i)) |-> <<i, found(i)[j].tempoWorklogId>>]
             \o from(i + 1)
  IN [overlaps |-> from(1), conflicts |-> <<>>]

\* a test on the list of overlaps instead of on the returned object
hasConflictsInOverlaps(conflictAnalysis) ==
  Len(conflictAnalysis.overlaps) > 0

\* `conflictAnalysis && conflictAnalysis.length > 0`: the returned object has
\* no property "length", and undefined > 0 is false
hasConflicts(conflictAnalysis) ==
  IF "length" \in DOMAIN conflictAnalysis THEN conflictAnalysis.length > 0
  ELSE FALSE

---------------------------------------------------------------------------
(* categorizeWorklogOperations *)

existingStart(ewl) ==
  IF ewl.startTime # NoStart THEN ewl.startTime ELSE DefaultStartTime

existingEnd(ewl) == existingStart(ewl) + ewl.timeSpent

overlapsExisting(importWL, ewl) ==
  overlaps(importWL.startTime, importWL.endTime,
           existingStart(ewl), existingEnd(ewl))

\* "CRITICAL: Skip undeleteable worklogs"
undeleteable(w, authorAccountId) ==
  \/ w.author = SystemUser
  \/ (~isUserWorklog(w, authorAccountId) /\ w.startDate < HardCutoff)

\* the key `${startDate}|${startTime}|${issueKey}` of a worklog of the store
existingKey(w) == <<w.startDate, w.startTime, extractIssueKeyFromWorklog(w)>>

importKey(importWL) == <<importWL.startDate, importWL.startTime, importWL.issueKey>>

\* positions of existingWorklogs that existingMap.set() stores under key
mapped(existingWorklogs, authorAccountId, key) ==
  {j \in 1..Len(existingWorklogs) :
     /\ ~undeleteable(existingWorklogs[j], authorAccountId)
     /\ extractIssueKeyFromWorklog(existingWorklogs[j]) # Unknown
     /\ existingKey(existingWorklogs[j]) = key}

\* a map that keeps the first worklog stored under a key
existingMapGetFirst(existingWorklogs, authorAccountId, key) ==
  LET m == mapped(existingWorklogs, authorAccountId, key)
  IN IF m = {} THEN 0 ELSE CHOOSE j \in m : \A k \in m : j <= k

\* existingMap.get(key): position of the worklog kept under key, 0 if none;
\* a later set() of the same key replaces the earlier one
existingMapGet(existingWorklogs, authorAccountId, key) ==
  LET m == mapped(existingWorklogs, authorAccountId, key)
  IN IF m = {} THEN 0 ELSE CHOOSE j \in m : \A k \in m : k <= j

\* conflicting records taken by date alone, without the test of overlap
conflictsNoMatchWholeDay(importWL, existingWorklogs, authorAccountId) ==
  SelectSeq(existingWorklogs, LAMBDA ewl :
     /\ ewl.startDate = importWL.startDate
     /\ ~undeleteable(ewl, authorAccountId))

\* conflictingRecords of an entry without exact match (lines 2031-2079)
conflictsNoMatch(importWL, existingWorklogs, authorAccountId) ==
  SelectSeq(existingWorklogs, LAMBDA ewl :
     /\ ewl.startDate = importWL.startDate
     /\ ~undeleteable(ewl, authorAccountId)
     /\ overlapsExisting(importWL, ewl))

\* conflicting records that leave the exact match out only when its range
\* is the range of the entry
conflictsWithMatchSameRange(importWL, existingWorklogs, existing) ==
  SelectSeq(existingWorklogs, LAMBDA ewl :
     /\ ewl.startDate = importWL.startDate
     /\ ~(/\ ewl.tempoWorklogId = existing.tempoWorklogId
          /\ existingStart(ewl) = importWL.startTime
          /\ existingEnd(ewl) = importWL.endTime)
     /\ overlapsExisting(importWL, ewl))

\* conflictingRecords of an entry with exact match (lines 2104-2139)
conflictsWithMatch(importWL, existingWorklogs, existing) ==
  SelectSeq(existingWorklogs, LAMBDA ewl :
     /\ ewl.startDate = importWL.startDate
     /\ ewl.tempoWorklogId # existing.tempoWorklogId
     /\ overlapsExisting(importWL, ewl))

idsOf(worklogs) == [j \in 1..Len(worklogs) |-> worklogs[j].tempoWorklogId]

\* a comparison of the fields that leaves the description out
perfectMatchButDescription(importWL, existing) ==
  /\ importWL.hours = existing.timeSpent
  /\ importWL.startTime = existingStart(existing)
  /\ importWL.startDate = existing.startDate
  /\ importWL.issueKey = extractIssueKeyFromWorklog(existing)

\* "EXACT MATCHING VALIDATION" (lines 2160-2183)
perfectMatch(importWL, existing) ==
  /\ importWL.hours = existing.timeSpent
  /\ importWL.description = existing.description
  /\ importWL.startTime = existingStart(existing)
  /\ importWL.startDate = existing.startDate
  /\ importWL.issueKey = extractIssueKeyFromWorklog(existing)

emptyOperations == [add |-> <<>>, update |-> <<>>, delete |-> <<>>,
                    replace |-> <<>>, noChange |-> <<>>]

\* a delete branch that takes the first worklog of the list, whatever its key
pushDeleteFirst(operations, i, existingWorklogs, e) ==
  IF existingWorklogs # <<>>
  THEN [operations EXCEPT !.delete =
          Append(@, [entry |-> i, tempoWorklogId |-> existingWorklogs[1].tempoWorklogId])]
  ELSE operations

\* the delete branch of the loop body (lines 1942-1953), before `continue`
pushDelete(operations, i, existingWorklogs, e) ==
  IF e # 0
  THEN [operations EXCEPT !.delete =
          Append(@, [entry |-> i, tempoWorklogId |-> existingWorklogs[e].tempoWorklogId])]
  ELSE operations

\* a loop body that emits a replace for every entry without exact match,
\* whether or not a worklog overlaps it
pushOtherAlwaysReplace(operations, i, importWL, existingWorklogs, authorAccountId, e, overlapKeys) ==
  LET early == conflictsNoMatch(importWL, existingWorklogs, authorAccountId)
  IN IF e = 0
     THEN [operations EXCEPT !.replace =
             Append(@, [entry |-> i, conflictingWorklogs |-> idsOf(early)])]
     ELSE [operations EXCEPT !.update =
             Append(@, [entry |-> i,
                        tempoWorklogId |-> existingWorklogs[e].tempoWorklogId])]

\* the rest of the loop body (lines 1955-2218)
pushOther(operations, i, importWL, existingWorklogs, authorAccountId, e, overlapKeys) ==
  LET early == conflictsNoMatch(importWL, existingWorklogs, authorAccountId)
  IN IF <<importWL.startDate, importWL.startTime>> \in overlapKeys /\ e = 0
        /\ early # <<>>
     THEN [operations EXCEPT !.replace =
             Append(@, [entry |-> i, conflictingWorklogs |-> idsOf(early)])]
     ELSE IF e = 0
     THEN IF early # <<>>
          THEN [operations EXCEPT !.replace =
                  Append(@, [entry |-> i, conflictingWorklogs |-> idsOf(early)])]
          ELSE [operations EXCEPT !.add = Append(@, [entry |-> i])]
     ELSE LET existing == existingWorklogs[e]
              conflicting == conflictsWithMatch(importWL, existingWorklogs, existing)
          IN IF conflicting # <<>>
             THEN [operations EXCEPT !.replace =
                     Append(@, [entry |-> i,
                                conflictingWorklogs |->
                                   idsOf(conflicting \o <<existing>>)])]
             ELSE IF perfectMatch(importWL, existing)
             THEN [operations EXCEPT !.noChange = Append(@, [entry |-> i])]
             ELSE [operations EXCEPT !.update =
                     Append(@, [entry |-> i,
                                tempoWorklogId |-> existing.tempoWorklogId])]

\* the loop body without the `continue` that ends the delete branch
categorizeOneNoContinue(operations, i, importWorklogs, existingWorklogs, authorAccountId, overlapKeys) ==
  LET importWL == importWorklogs[i]
      e == existingMapGet(existingWorklogs, authorAccountId, importKey(importWL))
  IN IF importWL.shouldDelete
     THEN pushOther(pushDelete(operations, i, existingWorklogs, e), i, importWL,
                    existingWorklogs, authorAccountId, e, overlapKeys)
     ELSE pushOther(operations, i, importWL, existingWorklogs, authorAccountId,
                    e, overlapKeys)

\* one turn of the loop over importWorklogs (lines 1927-2222)
categorizeOne(operations, i, importWorklogs, existingWorklogs, authorAccountId, overlapKeys) ==
  LET importWL == importWorklogs[i]
      e == existingMapGet(existingWorklogs, authorAccountId, importKey(importWL))
  IN IF importWL.shouldDelete
     THEN pushDelete(operations, i, existingWorklogs, e)
     ELSE pushOther(operations, i, importWL, existingWorklogs, authorAccountId,
                    e, overlapKeys)

RECURSIVE categorizeFrom(_, _, _, _, _, _)
categorizeFrom(operations, i, importWorklogs, existingWorklogs, authorAccountId, overlapKeys) ==
  IF i > Len(importWorklogs) THEN operations
  ELSE categorizeFrom(
         categorizeOne(operations, i, importWorklogs, existingWorklogs,
                       authorAccountId, overlapKeys),
         i + 1, importWorklogs, existingWorklogs, authorAccountId, overlapKeys)

categorizeWorklogOperations(importWorklogs, existingWorklogs, authorAccountId, overlapKeys) ==
  categorizeFrom(emptyOperations, 1, importWorklogs, existingWorklogs,
                 authorAccountId, overlapKeys)

---------------------------------------------------------------------------
(* The remote store behind tempoApiService *)

remoteIds == {w.tempoWorklogId : w \in remote}

\* GET /worklogs?from=&to=: the worklogs of the date window of the batch
getWorklogs(importWorklogs) ==
  LET dates == {importWorklogs[i].startDate : i \in 1..Len(importWorklogs)}
  IN SortById({w \in remote :
        /\ \E d \in dates : d <= w.startDate
        /\ \E d \in dates : w.startDate <= d})

\* the payload of createWorklogWithStatic / updateWorklogWithStatic as the
\* store keeps it under an id
storedWorklog(id, importWL) ==
  [tempoWorklogId |-> id,
   startDate |-> importWL.startDate,
   startTime |-> importWL.startTime,
   timeSpent |-> importWL.hours,
   author |-> ConfigUserAccountId,
   issueId |-> resolveIssue(importWL.issueKey),
   issueKey |-> None,
   description |-> importWL.description]

\* outcomes the remote side may give to a request it could serve
Outcomes == IF budget > 0 THEN {TRUE, FALSE} ELSE {TRUE}

Call(op, bag, entry, id, sent, ok, delay) ==
  [op |-> op, bag |-> bag, entry |-> entry, id |-> id, sent |-> sent,
   ok |-> ok, delay |-> delay]

\* successCount / failureCount of the executors before their loops
noCounts ==
  [b \in {"delete", "replace", "add", "update", "bulk"} |->
     [successCount |-> 0, failureCount |-> 0]]

\* successCount++ after the awaited call, failureCount++ in the catch block
Counted(bag, ok) ==
  IF ok THEN [counts EXCEPT ![bag].successCount = @ + 1]
  ELSE [counts EXCEPT ![bag].failureCount = @ + 1]

---------------------------------------------------------------------------
(* executeWorklogOperations: the order of the bags *)

\* the four calls of executeWorklogOperations with add ahead of replace
BagOrderAddFirst == <<"delete", "add", "replace", "update">>

BagOrder == <<"delete", "replace", "add", "update">>

RECURSIVE After(_, _, _)
\* where the executor stands when item i of bag number k is next
After(k, i, operations) ==
  IF k > Len(BagOrder) THEN [pc |-> "done", idx |-> 0]
  ELSE IF i <= Len(operations[BagOrder[k]]) THEN [pc |-> BagOrder[k], idx |-> i]
  ELSE After(k + 1, 1, operations)

BagNumber(bag) == CHOOSE k \in 1..Len(BagOrder) : BagOrder[k] = bag

\* "FINAL SAFETY FILTER" of executeReplaceOperations (lines 2666-2682)
deleteableWorklogs(conflictingWorklogs) ==
  SelectSeq(conflictingWorklogs, LAMBDA id : ~(id < UndeletableBelow))

---------------------------------------------------------------------------
(* State before an import *)

FileDates == {3}
FileIssues == {"ITST-1", "ITST-2"}
FileDescriptions == {"Work"}

\* no read of config.issueMapping yet
noLookups == [k \in FileIssues |-> 0]
DeleteValues == {"", "true"}

FileRows ==
  {[date |-> d, startTime |-> s, endTime |-> e, issue |-> k,
    description |-> x, delete |-> del, hours |-> RoundToQuarter(e - s),
    form |-> StrictForm] :
      d \in FileDates, s \in 0..(MaxTime - 1), e \in 1..MaxTime, k \in FileIssues,
      x \in FileDescriptions, del \in DeleteValues}

WellFormedRows == {r \in FileRows : r.startTime < r.endTime}

StoreIds == (UndeletableBelow - 1)..(UndeletableBelow + MaxRemote - 2)
StoreAuthors == {ConfigUserAccountId, SystemUser}

StoreWorklogs ==
  {[tempoWorklogId |-> id, startDate |-> d, startTime |-> s, timeSpent |-> t,
    author |-> a, issueId |-> 101, issueKey |-> None, description |-> x] :
      id \in StoreIds, d \in FileDates, s \in 0..(MaxTime - 1), t \in 1..MaxDur,
      a \in StoreAuthors, x \in FileDescriptions}

Stores ==
  {S \in SUBSET StoreWorklogs :
     /\ Cardinality(S) <= MaxRemote
     /\ \A v, w \in S : v.tempoWorklogId = w.tempoWorklogId => v = w}

RECURSIVE SeqsUpTo(_, _)
SeqsUpTo(S, n) ==
  IF n = 0 THEN {<<>>}
  ELSE LET shorter == SeqsUpTo(S, n - 1)
       IN shorter \cup {Append(q, x) : q \in {p \in shorter : Len(p) = n - 1}, x \in S}

Files == SeqsUpTo(WellFormedRows, MaxBatch) \ {<<>>}

RunStart ==
  /\ pc = "import"
  /\ batch = <<>>
  /\ author = None
  /\ snapshot = <<>>
  /\ ops = emptyOperations
  /\ idx = 0
  /\ sub = 0
  /\ calls = <<>>
  /\ result = "none"
  /\ counts = noCounts

InitFile ==
  /\ format \in {"csv", "json"}
  /\ rows \in Files
  /\ remote \in Stores
  /\ nextId = UndeletableBelow + MaxRemote
  /\ cache = {}
  /\ lookups = noLookups
  /\ RunStart
  /\ run = 1
  /\ firstRun = "none"

Init == InitFile /\ budget = MaxFail

---------------------------------------------------------------------------
(* importWorklogs up to the validation *)

ImportFile ==
  /\ pc = "import"
  /\ LET worklogsData == IF format = "csv" THEN parseCSV(rows)
                         ELSE [i \in 1..Len(rows) |-> jsonEntry(rows[i])]
     IN IF format = "csv" /\ (\/ invalidEntries(worklogsData) > 0
                              \/ validateTimeConflicts(worklogsData) > 0)
        THEN /\ pc' = "done"
             /\ result' = "error"
             /\ batch' = batch
        ELSE /\ pc' = "validate"
             /\ result' = result
             /\ batch' = worklogsData
  /\ UNCHANGED <<format, rows, remote, nextId, cache, lookups, author, snapshot, ops,
                 idx, sub, calls, budget, counts, run, firstRun>>

\* a validation that fetches again when the fetch failed
ValidateWorklogsForImportRetry ==
  /\ pc = "validate"
  /\ \E ok \in Outcomes :
       LET conflictAnalysis ==
             validateAgainstExistingWorklogs(
               batch, recentWorklogs(getWorklogs(batch), ConfigUserAccountId))
           cancelled == ok /\ hasConflicts(conflictAnalysis)
       IN /\ calls' = Append(calls, Call("getWorklogs", "validate", 0, NoId, TRUE, ok, FALSE))
          /\ budget' = IF ok THEN budget ELSE budget - 1
          /\ pc' = IF cancelled THEN "done" ELSE IF ok THEN "user" ELSE "validate"
          /\ result' = IF cancelled THEN "error" ELSE result
  /\ UNCHANGED <<format, rows, remote, nextId, cache, lookups, batch, author, snapshot,
                 ops, idx, sub, counts, run, firstRun>>

\* validateWorklogsForImport: config.userAccountId is set, the worklogs are
\* fetched, filtered and compared with the entries; a failure, or a result
\* that has conflicts, cancels the import
ValidateWorklogsForImport ==
  /\ pc = "validate"
  /\ \E ok \in Outcomes :
       LET conflictAnalysis ==
             validateAgainstExistingWorklogs(
               batch, recentWorklogs(getWorklogs(batch), ConfigUserAccountId))
           cancelled == ~ok \/ hasConflicts(conflictAnalysis)
       IN /\ calls' = Append(calls, Call("getWorklogs", "validate", 0, NoId, TRUE, ok, FALSE))
          /\ budget' = IF ok THEN budget ELSE budget - 1
          /\ pc' = IF cancelled THEN "done" ELSE "user"
          /\ result' = IF cancelled THEN "error" ELSE result
  /\ UNCHANGED <<format, rows, remote, nextId, cache, lookups, batch, author, snapshot,
                 ops, idx, sub, counts, run, firstRun>>

---------------------------------------------------------------------------
(* executeWorklogOperations *)

\* where bulkCreateWorklogs stands when entry i is next
BulkAt(i) == IF i <= Len(batch) THEN [pc |-> "bulk", idx |-> i]
             ELSE [pc |-> "done", idx |-> 0]

\* getCurrentUser, and getAuthorAccountIdFromWorklogs when it fails; without
\* an account id the catch block falls back to bulkCreateWorklogs
DetermineAuthor ==
  /\ pc = "user"
  /\ \E ok \in Outcomes :
       IF ok
       THEN /\ calls' = Append(calls, Call("getCurrentUser", "execute", 0, NoId, TRUE, TRUE, FALSE))
            /\ author' = ApiUserAccountId
            /\ pc' = "fetch"
            /\ idx' = idx
            /\ result' = result
            /\ budget' = budget
       ELSE \E a \in {w.author : w \in remote} \cup {None} :
            /\ calls' = calls \o
                 << Call("getCurrentUser", "execute", 0, NoId, TRUE, FALSE, FALSE),
                    Call("getAuthorAccountIdFromWorklogs", "execute", 0, NoId, TRUE,
                         a # None, FALSE) >>
            /\ author' = a
            /\ pc' = IF a # None THEN "fetch" ELSE BulkAt(1).pc
            /\ idx' = IF a # None THEN idx ELSE BulkAt(1).idx
            /\ result' = IF a = None /\ BulkAt(1).pc = "done" THEN "ok" ELSE result
            /\ budget' = budget - 1
  /\ UNCHANGED <<format, rows, remote, nextId, cache, lookups, batch, snapshot, ops,
                 sub, counts, run, firstRun>>

\* getWorklogs, the filter and categorizeWorklogOperations; a failed fetch
\* falls back to bulkCreateWorklogs
FetchAndCategorize ==
  /\ pc = "fetch"
  /\ \E ok \in Outcomes :
       /\ calls' = Append(calls, Call("getWorklogs", "execute", 0, NoId, TRUE, ok, FALSE))
       /\ budget' = IF ok THEN budget ELSE budget - 1
       /\ IF ok
          THEN LET existingWorklogs == recentWorklogs(getWorklogs(batch), author)
                   operations == categorizeWorklogOperations(batch, existingWorklogs,
                                                              author, {})
               IN /\ snapshot' = existingWorklogs
                  /\ ops' = operations
                  /\ pc' = After(1, 1, operations).pc
                  /\ idx' = After(1, 1, operations).idx
                  /\ result' = IF After(1, 1, operations).pc = "done" THEN "ok" ELSE result
          ELSE /\ snapshot' = snapshot
               /\ ops' = ops
               /\ pc' = BulkAt(1).pc
               /\ idx' = BulkAt(1).idx
               /\ result' = IF BulkAt(1).pc = "done" THEN "ok" ELSE result
  /\ sub' = 1
  /\ UNCHANGED <<format, rows, remote, nextId, cache, lookups, batch, author, counts, run,
                 firstRun>>

\* moves the executor to item i of bag number k
GoTo(k, i) ==
  /\ pc' = After(k, i, ops).pc
  /\ idx' = After(k, i, ops).idx
  /\ sub' = 1
  /\ result' = IF After(k, i, ops).pc = "done" THEN "ok" ELSE result

\* tempoApiService.deleteWorklog(id) with outcome ok
DeleteWorklog(id, ok) ==
  /\ remote' = IF ok THEN {w \in remote : w.tempoWorklogId # id} ELSE remote
  /\ budget' = IF ~ok /\ id \in remoteIds THEN budget - 1 ELSE budget

DeleteOutcomes(id) == IF id \in remoteIds THEN Outcomes ELSE {FALSE}

\* tempoApiService.createWorklogWithStatic for an entry, logged for a bag
CreateWorklogWithStatic(importWL, bag, entry) ==
  IF resolveIssue(importWL.issueKey) = NoId
  THEN /\ calls' = Append(calls, Call("create", bag, entry, NoId, FALSE, FALSE, FALSE))
       /\ counts' = Counted(bag, FALSE)
       /\ ResolveIssueStatic(importWL.issueKey)
       /\ UNCHANGED <<remote, nextId, budget>>
  ELSE \E ok \in Outcomes :
       /\ calls' = Append(calls, Call("create", bag, entry, IF ok THEN nextId ELSE NoId,
                                      TRUE, ok, ok))
       /\ counts' = Counted(bag, ok)
       /\ ResolveIssueStatic(importWL.issueKey)
       /\ remote' = IF ok THEN remote \cup {storedWorklog(nextId, importWL)} ELSE remote
       /\ nextId' = IF ok THEN nextId + 1 ELSE nextId
       /\ budget' = IF ok THEN budget ELSE budget - 1

\* one turn of the loop of executeDeleteOperations
ExecuteDelete ==
  /\ pc = "delete"
  /\ LET id == ops.delete[idx].tempoWorklogId
     IN \E ok \in DeleteOutcomes(id) :
          /\ DeleteWorklog(id, ok)
          /\ calls' = Append(calls, Call("delete", "delete", ops.delete[idx].entry,
                                         id, TRUE, ok, ok))
          /\ counts' = Counted("delete", ok)
  /\ GoTo(BagNumber("delete"), idx + 1)
  /\ UNCHANGED <<format, rows, nextId, cache, lookups, batch, author, snapshot, ops,
                 run, firstRun>>

\* executeReplaceOperations, step 1: one deletion of a conflicting worklog
ExecuteReplaceDelete ==
  /\ pc = "replace"
  /\ sub <= Len(deleteableWorklogs(ops.replace[idx].conflictingWorklogs))
  /\ LET id == deleteableWorklogs(ops.replace[idx].conflictingWorklogs)[sub]
     IN \E ok \in DeleteOutcomes(id) :
          /\ DeleteWorklog(id, ok)
          /\ calls' = Append(calls, Call("delete", "replace", ops.replace[idx].entry,
                                         id, TRUE, ok, TRUE))
  /\ sub' = sub + 1
  /\ UNCHANGED <<format, rows, nextId, cache, lookups, pc, batch, author, snapshot, ops,
                 idx, result, counts, run, firstRun>>

\* executeReplaceOperations, step 2: creation of the new worklog
ExecuteReplaceCreate ==
  /\ pc = "replace"
  /\ sub > Len(deleteableWorklogs(ops.replace[idx].conflictingWorklogs))
  /\ CreateWorklogWithStatic(batch[ops.replace[idx].entry], "replace",
                             ops.replace[idx].entry)
  /\ GoTo(BagNumber("replace"), idx + 1)
  /\ UNCHANGED <<format, rows, batch, author, snapshot, ops, run, firstRun>>

\* executeAddOperations with the try/catch around the loop instead of inside
\* it: the first failure ends the loop
ExecuteAddCatchOutsideLoop ==
  /\ pc = "add"
  /\ CreateWorklogWithStatic(batch[ops.add[idx].entry], "add", ops.add[idx].entry)
  /\ IF counts'["add"].failureCount > 0
     THEN GoTo(BagNumber("add") + 1, 1)
     ELSE GoTo(BagNumber("add"), idx + 1)
  /\ UNCHANGED <<format, rows, batch, author, snapshot, ops, run, firstRun>>

\* one turn of the loop of executeAddOperations
ExecuteAdd ==
  /\ pc = "add"
  /\ CreateWorklogWithStatic(batch[ops.add[idx].entry], "add", ops.add[idx].entry)
  /\ GoTo(BagNumber("add"), idx + 1)
  /\ UNCHANGED <<format, rows, batch, author, snapshot, ops, run, firstRun>>

\* one turn of the loop of executeUpdateOperations: updateWorklogWithStatic
ExecuteUpdate ==
  /\ pc = "update"
  /\ LET item == ops.update[idx]
         importWL == batch[item.entry]
         id == item.tempoWorklogId
     IN IF resolveIssue(importWL.issueKey) = NoId
        THEN /\ calls' = Append(calls, Call("update", "update", item.entry, id,
                                            FALSE, FALSE, FALSE))
             /\ counts' = Counted("update", FALSE)
             /\ ResolveIssueStatic(importWL.issueKey)
             /\ UNCHANGED <<remote, budget>>
        ELSE \E ok \in DeleteOutcomes(id) :
             /\ calls' = Append(calls, Call("update", "update", item.entry, id,
                                            TRUE, ok, ok))
             /\ counts' = Counted("update", ok)
             /\ ResolveIssueStatic(importWL.issueKey)
             /\ remote' = IF ok
                          THEN {w \in remote : w.tempoWorklogId # id}
                               \cup {storedWorklog(id, importWL)}
                          ELSE remote
             /\ budget' = IF ~ok /\ id \in remoteIds THEN budget - 1 ELSE budget
  /\ GoTo(BagNumber("update"), idx + 1)
  /\ UNCHANGED <<format, rows, nextId, batch, author, snapshot, ops, run, firstRun>>

\* one turn of the loop of bulkCreateWorklogs
BulkCreate ==
  /\ pc = "bulk"
  /\ CreateWorklogWithStatic(batch[idx], "bulk", idx)
  /\ pc' = BulkAt(idx + 1).pc
  /\ idx' = BulkAt(idx + 1).idx
  /\ result' = IF BulkAt(idx + 1).pc = "done" THEN "ok" ELSE result
  /\ UNCHANGED <<format, rows, batch, author, snapshot, ops, sub, run, firstRun>>

\* the import is started again on the same file
ImportAgain ==
  /\ pc = "done"
  /\ run < MaxRuns
  /\ run' = run + 1
  /\ firstRun' = IF result = "ok" /\ \A i \in 1..Len(calls) : calls[i].ok
                 THEN "clean" ELSE "failed"
  /\ pc' = "import"
  /\ batch' = <<>>
  /\ author' = None
  /\ snapshot' = <<>>
  /\ ops' = emptyOperations
  /\ idx' = 0
  /\ sub' = 0
  /\ calls' = <<>>
  /\ result' = "none"
  /\ counts' = noCounts
  /\ UNCHANGED <<format, rows, remote, nextId, cache, lookups, budget>>

Next ==
  \/ ImportFile
  \/ ValidateWorklogsForImport
  \/ DetermineAuthor
  \/ FetchAndCategorize
  \/ ExecuteDelete
  \/ ExecuteReplaceDelete
  \/ ExecuteReplaceCreate
  \/ ExecuteAdd
  \/ ExecuteUpdate
  \/ BulkCreate

Spec == Init /\ [][Next]_vars

\* two imports of the same file in a row against a remote side that fails
\* no request it could serve
InitTwice == InitFile /\ budget = 0

NextTwice ==
  \/ ImportFile
  \/ ValidateWorklogsForImport
  \/ DetermineAuthor
  \/ FetchAndCategorize
  \/ ExecuteDelete
  \/ ExecuteReplaceDelete
  \/ ExecuteReplaceCreate
  \/ ExecuteAdd
  \/ ExecuteUpdate
  \/ ImportAgain

SpecTwice == InitTwice /\ [][NextTwice]_vars

---------------------------------------------------------------------------
(* The filter of executeWorklogOperations on worklogs of any date and      *)
(* author: a run that stands before its fetch, on a file whose rows span   *)
(* the days around the two cutoffs                                         *)

OtherUser == "other"

FilterDates == {YearCutoff - 1, YearCutoff, RecentFrom}

FilterRows ==
  << [date |-> YearCutoff - 1, startTime |-> 0, endTime |-> 2, issue |-> "ITST-1",
      description |-> "Work", delete |-> "", hours |-> 2, form |-> StrictForm],
     [date |-> RecentFrom, startTime |-> 0, endTime |-> 2, issue |-> "ITST-1",
      description |-> "Work", delete |-> "", hours |-> 2, form |-> StrictForm] >>

FilterWorklogs ==
  {[tempoWorklogId |-> id, startDate |-> d, startTime |-> 0, timeSpent |-> 2,
    author |-> a, issueId |-> 101, issueKey |-> None, description |-> "Work"] :
      id \in UndeletableBelow..(UndeletableBelow + MaxRemote - 1), d \in FilterDates,
      a \in {ConfigUserAccountId, OtherUser, SystemUser}}

FilterStores ==
  {S \in SUBSET FilterWorklogs :
     /\ Cardinality(S) <= MaxRemote
     /\ \A v, w \in S : v.tempoWorklogId = w.tempoWorklogId => v = w}

InitFilter ==
  /\ format = "csv"
  /\ rows = FilterRows
  /\ remote \in FilterStores
  /\ nextId = UndeletableBelow + MaxRemote
  /\ cache = {}
  /\ lookups = noLookups
  /\ pc = "fetch"
  /\ batch = parseCSV(FilterRows)
  /\ author = ApiUserAccountId
  /\ snapshot = <<>>
  /\ ops = emptyOperations
  /\ idx = 0
  /\ sub = 0
  /\ calls = << Call("getWorklogs", "validate", 0, NoId, TRUE, TRUE, FALSE),
                Call("getCurrentUser", "execute", 0, NoId, TRUE, TRUE, FALSE) >>
  /\ result = "none"
  /\ budget = 0
  /\ counts = noCounts
  /\ run = 1
  /\ firstRun = "none"

NextFilter == FetchAndCategorize

SpecFilter == InitFilter /\ [][NextFilter]_vars

---------------------------------------------------------------------------
(* The classification of one entry against any store of two worklogs: a   *)
(* run that stands before its fetch, on a file of one row; the worklogs    *)
(* may lack a start time, belong to another user and differ from the row   *)
(* in duration and description                                             *)

ClassifyDescriptions == {"Work", "Other"}

ClassifyRows ==
  {[date |-> d, startTime |-> s, endTime |-> e, issue |-> k,
    description |-> x, delete |-> del, hours |-> RoundToQuarter(e - s),
    form |-> StrictForm] :
      d \in FileDates, s \in 0..(MaxTime - 1), e \in 1..MaxTime, k \in FileIssues,
      x \in ClassifyDescriptions, del \in DeleteValues}

ClassifyIds == {UndeletableBelow, UndeletableBelow + 1}

ClassifyWorklogs ==
  {[tempoWorklogId |-> id, startDate |-> d, startTime |-> s, timeSpent |-> t,
    author |-> a, issueId |-> 101, issueKey |-> None, description |-> x] :
      id \in ClassifyIds, d \in FileDates, s \in {NoStart} \cup 0..(MaxTime - 1),
      t \in 1..MaxDur, a \in {ConfigUserAccountId, OtherUser, SystemUser},
      x \in ClassifyDescriptions}

\* the stores of no, one or two worklogs, each under an id of its own
ClassifyStores ==
  {{}} \cup {{w} : w \in ClassifyWorklogs}
       \cup {{v, w} : v \in {x \in ClassifyWorklogs : x.tempoWorklogId = UndeletableBelow},
                      w \in {x \in ClassifyWorklogs : x.tempoWorklogId # UndeletableBelow}}

InitClassify ==
  /\ format = "csv"
  /\ rows \in {<<r>> : r \in {q \in ClassifyRows : q.startTime < q.endTime}}
  /\ remote \in ClassifyStores
  /\ nextId = UndeletableBelow + 2
  /\ cache = {}
  /\ lookups = noLookups
  /\ pc = "fetch"
  /\ batch = parseCSV(rows)
  /\ author = ApiUserAccountId
  /\ snapshot = <<>>
  /\ ops = emptyOperations
  /\ idx = 0
  /\ sub = 0
  /\ calls = << Call("getWorklogs", "validate", 0, NoId, TRUE, TRUE, FALSE),
                Call("getCurrentUser", "execute", 0, NoId, TRUE, TRUE, FALSE) >>
  /\ result = "none"
  /\ budget = 0
  /\ counts = noCounts
  /\ run = 1
  /\ firstRun = "none"

NextClassify == FetchAndCategorize

SpecClassify == InitClassify /\ [][NextClassify]_vars

---------------------------------------------------------------------------
(* The classification of one entry against a store of two worklogs of the  *)
(* user that carry their time of creation; the store lists its worklogs by *)
(* id, whatever their times of creation                                    *)

TieCreated == {1, 2}

TieRows ==
  {[date |-> d, startTime |-> s, endTime |-> e, issue |-> "ITST-1",
    description |-> "Work", delete |-> del, hours |-> RoundToQuarter(e - s),
    form |-> StrictForm] :
      d \in FileDates, s \in 0..(MaxTime - 1), e \in 1..MaxTime,
      del \in DeleteValues}

TieWorklogs(id) ==
  {[tempoWorklogId |-> id, startDate |-> d, startTime |-> s, timeSpent |-> t,
    author |-> ConfigUserAccountId, issueId |-> 101, issueKey |-> None,
    description |-> "Work", created |-> c] :
      d \in FileDates, s \in 0..(MaxTime - 1), t \in 1..MaxDur, c \in TieCreated}

InitTie ==
  /\ format = "csv"
  /\ rows \in {<<r>> : r \in {q \in TieRows : q.startTime < q.endTime}}
  /\ remote \in {{v, w} : v \in TieWorklogs(UndeletableBelow),
                          w \in TieWorklogs(UndeletableBelow + 1)}
  /\ nextId = UndeletableBelow + 2
  /\ cache = {}
  /\ lookups = noLookups
  /\ pc = "fetch"
  /\ batch = parseCSV(rows)
  /\ author = ApiUserAccountId
  /\ snapshot = <<>>
  /\ ops = emptyOperations
  /\ idx = 0
  /\ sub = 0
  /\ calls = << Call("getWorklogs", "validate", 0, NoId, TRUE, TRUE, FALSE),
                Call("getCurrentUser", "execute", 0, NoId, TRUE, TRUE, FALSE) >>
  /\ result = "none"
  /\ budget = 0
  /\ counts = noCounts
  /\ run = 1
  /\ firstRun = "none"

NextTie == FetchAndCategorize

SpecTie == InitTie /\ [][NextTie]_vars

---------------------------------------------------------------------------
(* The parsing of a CSV file whose rows may be malformed, in the form of   *)
(* their times or in their time range, and may hold any text in the        *)
(* delete column                                                           *)

ParseDeleteValues == {"", "true", "1", "yes", "TRUE", "Yes", "no"}

ParseRows ==
  {[date |-> d, startTime |-> s, endTime |-> e, issue |-> "ITST-1",
    description |-> "Work", delete |-> del, hours |-> RoundToQuarter(e - s),
    form |-> f] :
      d \in FileDates, s \in 0..(MaxTime - 1), e \in 1..MaxTime,
      f \in {StrictForm, LooseForm, BadForm}, del \in ParseDeleteValues}

InitParse ==
  /\ format = "csv"
  /\ rows \in SeqsUpTo(ParseRows, MaxBatch) \ {<<>>}
  /\ remote = {}
  /\ nextId = UndeletableBelow + MaxRemote
  /\ cache = {}
  /\ lookups = noLookups
  /\ RunStart
  /\ budget = 0
  /\ run = 1
  /\ firstRun = "none"

NextParse ==
  \/ ImportFile
  \/ ValidateWorklogsForImport

SpecParse == InitParse /\ [][NextParse]_vars

---------------------------------------------------------------------------
(* Vocabulary of the properties *)

CallIndices == 1..Len(calls)

WriteOps == {"create", "update", "delete"}

\* calls that sent a create, update or delete request
WriteCalls == {i \in CallIndices : calls[i].op \in WriteOps /\ calls[i].sent}

\* the run fetched and classified: categorizeWorklogOperations returned
Classified ==
  \E i \in CallIndices :
     calls[i].op = "getWorklogs" /\ calls[i].bag = "execute" /\ calls[i].ok

NoCallFailed == \A i \in CallIndices : calls[i].ok

Bags == {"add", "update", "delete", "replace", "noChange"}

\* number of items of a bag that carry entry i
InBag(bag, i) == Cardinality({j \in 1..Len(ops[bag]) : ops[bag][j].entry = i})

\* ids of the worklogs a replace operation is to delete
ReplaceTargets ==
  UNION {Range(ops.replace[j].conflictingWorklogs) : j \in 1..Len(ops.replace)}

DeleteTargets == {ops.delete[j].tempoWorklogId : j \in 1..Len(ops.delete)}

\* the file has two entries on one date whose time ranges overlap
FileHasOverlap ==
  \E i, j \in 1..Len(rows) :
     /\ i < j
     /\ rows[i].date = rows[j].date
     /\ overlaps(rows[i].startTime, rows[i].endTime,
                 rows[j].startTime, rows[j].endTime)

\* the store holds a worklog with the date, start time, issue and duration
\* of an entry
Recorded(importWL) ==
  \E w \in remote :
     /\ w.startDate = importWL.startDate
     /\ w.startTime = importWL.startTime
     /\ w.issueId = resolveIssue(importWL.issueKey)
     /\ w.timeSpent = importWL.hours

---------------------------------------------------------------------------
(* C1: after a run in which no call to the remote service failed, on a     *)
(* batch that passes the internal conflict check, the store holds for      *)
(* every entry not marked shouldDelete a worklog with its date, start      *)
(* time, issue and duration, and every worklog selected as a delete target *)
(* (by a delete or a replace operation) is gone.                           *)
C1_StoreReflectsBatch ==
  (/\ pc = "done"
   /\ result = "ok"
   /\ Classified
   /\ NoCallFailed
   /\ validateTimeConflicts(batch) = 0)
  => /\ \A i \in 1..Len(batch) : ~batch[i].shouldDelete => Recorded(batch[i])
     /\ (DeleteTargets \cup ReplaceTargets) \cap remoteIds = {}

(* C2: when a run completed without a failed call and the same file is    *)
(* imported again, the second run classifies every entry not marked        *)
(* shouldDelete as noChange and sends no create, update or delete.         *)
C2_SecondRunNoChange ==
  (run > 1 /\ firstRun = "clean" /\ Classified)
  => /\ \A i \in 1..Len(batch) : ~batch[i].shouldDelete => InBag("noChange", i) = 1
     /\ ops.add = <<>> /\ ops.update = <<>> /\ ops.replace = <<>>
     /\ WriteCalls = {}

(* C3: a file in which two entries of one date have overlapping time       *)
(* ranges makes the import send no request at all and fail.                *)
C3_OverlapNoRemoteCall ==
  FileHasOverlap
  => /\ calls = <<>>
     /\ pc \in {"import", "done"}
     /\ pc = "done" => result = "error"

\* the file has two entries on one date, neither marked shouldDelete, whose
\* time ranges overlap
FileHasConflict ==
  \E i, j \in 1..Len(rows) :
     /\ i < j
     /\ ~IsDeleteValue(rows[i].delete) /\ ~IsDeleteValue(rows[j].delete)
     /\ rows[i].date = rows[j].date
     /\ overlaps(rows[i].startTime, rows[i].endTime,
                 rows[j].startTime, rows[j].endTime)

(* C3 as amended: a CSV file in which two entries of one date, neither     *)
(* marked shouldDelete, have overlapping time ranges makes the import send *)
(* no request at all and fail.                                             *)
C3_CsvConflictNoRemoteCall ==
  (format = "csv" /\ FileHasConflict)
  => /\ calls = <<>>
     /\ pc \in {"import", "done"}
     /\ pc = "done" => result = "error"

\* a CSV file with a conflict has been refused
C3_Witness ==
  format = "csv" /\ FileHasConflict /\ pc = "done" /\ result = "error"

(* C4: no worklog authored by the system user is the argument of a delete  *)
(* call, the target of a delete operation or a member of a replace         *)
(* operation's list of conflicting worklogs.                               *)
C4_SystemWorklogsImmune ==
  \A w \in remote :
     w.author = SystemUser
     => /\ w.tempoWorklogId \notin DeleteTargets \cup ReplaceTargets
        /\ \A i \in CallIndices :
              calls[i].op = "delete" => calls[i].id # w.tempoWorklogId

\* a replace has deleted a worklog for an entry that a system worklog of
\* the same date overlaps as well
C4_Witness ==
  \E w \in remote, j \in 1..Len(ops.replace) :
     /\ w.author = SystemUser
     /\ w.startDate = batch[ops.replace[j].entry].startDate
     /\ overlapsExisting(batch[ops.replace[j].entry], w)
     /\ \E i \in CallIndices :
           /\ calls[i].op = "delete" /\ calls[i].ok
           /\ calls[i].entry = ops.replace[j].entry

\* a worklog of the filtered set with the date, start time and issue of an
\* entry
HasTarget(importWL) ==
  \E j \in 1..Len(snapshot) :
     /\ snapshot[j].startDate = importWL.startDate
     /\ snapshot[j].startTime = importWL.startTime
     /\ extractIssueKeyFromWorklog(snapshot[j]) = importWL.issueKey

C6_DeleteEntryNeverWritten ==
  \A i \in 1..Len(batch) :
     batch[i].shouldDelete
     => /\ InBag("add", i) + InBag("update", i) + InBag("replace", i)
             + InBag("noChange", i) = 0
        /\ \A c \in CallIndices :
              calls[c].op \in {"create", "update"} => calls[c].entry # i

(* C7: when the current user cannot be determined or the fetch of the      *)
(* remote worklogs fails, the run sends no create, update or delete.       *)
C7_NoWriteWithoutClassification ==
  (\E i \in CallIndices :
      /\ calls[i].op \in {"getAuthorAccountIdFromWorklogs", "getWorklogs"}
      /\ ~calls[i].ok)
  => WriteCalls = {}

(* C8: for an entry whose issue key cannot be resolved no worklog is       *)
(* deleted, created or updated.                                            *)
C8_UnresolvedEntryNoMutation ==
  \A i \in 1..Len(batch) :
     resolveIssue(batch[i].issueKey) = NoId /\ ~batch[i].shouldDelete
     => \A c \in CallIndices :
           (calls[c].entry = i /\ calls[c].op \in WriteOps) => ~calls[c].ok

BagRank(bag) ==
  CASE bag = "delete" -> 1
    [] bag = "replace" -> 2
    [] bag = "add" -> 3
    [] bag = "update" -> 4

(* C9: the calls for the delete bag come before those for the replace bag, *)
(* these before those for the add bag, and these before those for the      *)
(* update bag.                                                             *)
C9_BagOrder ==
  \A i, j \in CallIndices :
     (/\ i < j
      /\ calls[i].bag \in {"delete", "replace", "add", "update"}
      /\ calls[j].bag \in {"delete", "replace", "add", "update"})
     => BagRank(calls[i].bag) <= BagRank(calls[j].bag)

\* a run that made calls for two different bags
C9_Witness ==
  /\ pc = "done"
  /\ \E i, j \in CallIndices :
        /\ calls[i].bag \in {"delete", "replace", "add", "update"}
        /\ calls[j].bag \in {"delete", "replace", "add", "update"}
        /\ calls[i].bag # calls[j].bag

(* C10: when the create call of a replace operation is issued, a delete    *)
(* has been attempted before it for every worklog of the operation's list. *)
C10_ReplaceDeletesAllFirst ==
  \A c \in CallIndices :
     (calls[c].op = "create" /\ calls[c].bag = "replace")
     => \A j \in 1..Len(ops.replace) :
          ops.replace[j].entry = calls[c].entry
          => \A id \in Range(ops.replace[j].conflictingWorklogs) :
               \E d \in 1..(c - 1) :
                  /\ calls[d].op = "delete" /\ calls[d].bag = "replace"
                  /\ calls[d].entry = calls[c].entry
                  /\ calls[d].id = id

\* the remote call that carries out an item of a bag
ItemOp(bag) ==
  CASE bag = "delete" -> "delete"
    [] bag = "replace" -> "create"
    [] bag = "add" -> "create"
    [] bag = "update" -> "update"

\* the calls made to carry out the item of a bag that stands for entry i
ItemCalls(bag, i) ==
  {c \in CallIndices :
     calls[c].bag = bag /\ calls[c].entry = i /\ calls[c].op = ItemOp(bag)}

\* every item of the four bags was attempted exactly once and the failures
\* and successes of each bag are the counts its executor reports
AllAttemptedAndCounted ==
  \A bag \in {"delete", "replace", "add", "update"} :
     /\ \A j \in 1..Len(ops[bag]) :
           Cardinality(ItemCalls(bag, ops[bag][j].entry)) = 1
     /\ counts[bag].failureCount =
           Cardinality({j \in 1..Len(ops[bag]) :
              \E c \in ItemCalls(bag, ops[bag][j].entry) : ~calls[c].ok})
     /\ counts[bag].successCount =
           Cardinality({j \in 1..Len(ops[bag]) :
              \E c \in ItemCalls(bag, ops[bag][j].entry) : calls[c].ok})

\* the calls the executors still have to make: the items not yet attempted
\* and the deletions of the replace operations not yet attempted
Pending ==
  Cardinality({<<bag, j>> \in {"delete", "replace", "add", "update"} \X (1..MaxBatch) :
                 j <= Len(ops[bag]) /\ ItemCalls(bag, ops[bag][j].entry) = {}})
  + Cardinality({<<j, id>> \in (1..MaxBatch) \X (remoteIds \cup ReplaceTargets) :
                 /\ j <= Len(ops.replace)
                 /\ id \in Range(deleteableWorklogs(ops.replace[j].conflictingWorklogs))
                 /\ ItemCalls("replace", ops.replace[j].entry) = {}
                 /\ ~\E c \in CallIndices :
                        /\ calls[c].op = "delete" /\ calls[c].bag = "replace"
                        /\ calls[c].entry = ops.replace[j].entry
                        /\ calls[c].id = id})

ExecutorWrites ==
  {c \in WriteCalls : calls[c].bag \in {"delete", "replace", "add", "update"}}

(* C12: between two consecutive write requests of the executors a delay    *)
(* elapses, whether the earlier request succeeded or failed.               *)
C12_DelayBetweenWrites ==
  \A c, d \in ExecutorWrites :
     (c < d /\ ~\E m \in ExecutorWrites : c < m /\ m < d)
     => \E k \in c..(d - 1) : calls[k].delay

\* validateWorklogsForImport fetched the worklogs of the store
ValidationFetched ==
  \E c \in CallIndices :
     calls[c].op = "getWorklogs" /\ calls[c].bag = "validate" /\ calls[c].ok

(* C13: when the batch has no internal conflict and the fetch of the       *)
(* validation succeeds, the import is not cancelled, whatever worklogs of  *)
(* the store overlap the entries: the run goes on to                       *)
(* executeWorklogOperations.                                               *)
C13_ExternalOverlapNeverCancels ==
  (ValidationFetched /\ validateTimeConflicts(batch) = 0)
  => /\ result # "error"
     /\ pc \notin {"import", "validate"}

\* a run was classified and came to its end although a worklog of the
\* store, kept by the filter, overlapped an entry that is not its exact match
C13_Witness ==
  /\ pc = "done" /\ result = "ok" /\ Classified
  /\ validateTimeConflicts(batch) = 0
  /\ Len(validateAgainstExistingWorklogs(batch, snapshot).overlaps) > 0

(* C14: the worklogs of the store are fetched once in a run: the           *)
(* validation and the classifier work on the one set fetched and filtered. *)
C14_FetchedOnce ==
  Cardinality({c \in CallIndices : calls[c].op = "getWorklogs"}) <= 1

\* the fetches of the worklogs made by one part of the run
Fetches(part) ==
  {c \in CallIndices : calls[c].op = "getWorklogs" /\ calls[c].bag = part}

(* C14 as amended: in a run the worklogs of the store are fetched at most  *)
(* once by the validation and at most once, after that, by the executor;   *)
(* the classifier works on the set the executor fetched and filtered.      *)
C14_FetchedOncePerPart ==
  /\ Cardinality(Fetches("validate")) <= 1
  /\ Cardinality(Fetches("execute")) <= 1
  /\ \A e \in Fetches("execute") :
        \E v \in Fetches("validate") : v < e /\ calls[v].ok
  /\ (Classified /\ pc \in {"delete", "replace", "add", "update"} /\ idx = 1 /\ sub = 1
      /\ WriteCalls = {})
     => snapshot = recentWorklogs(SortById(remote), author)

\* a run was classified after the validation and the executor each fetched
\* the worklogs of a store that is not empty
C14_Witness ==
  /\ Classified
  /\ ValidationFetched
  /\ snapshot # <<>>

(* C15: a worklog not authored by the system user is left out by the       *)
(* filter exactly when it is dated before the year cutoff and is neither   *)
(* the current user's nor dated within the last 3 days; the current user's *)
(* own worklogs dated before the cutoff are kept.                          *)
C15_FilterRule ==
  Classified
  => \A w \in remote :
        w.author # SystemUser
        => ((w \notin Range(snapshot))
             <=> (/\ w.startDate < YearCutoff
                  /\ w.author # author
                  /\ w.startDate < RecentFrom))

\* a row of the file that is well formed in every field
WellFormedRow(row) ==
  row.form = StrictForm /\ row.startTime < row.endTime /\ row.issue # ""

\* the entries of the well-formed rows of the file, in the order of the file
WellFormedEntries ==
  LET wf == SelectSeq(rows, WellFormedRow)
  IN [i \in 1..Len(wf) |->
        [issueKey |-> wf[i].issue, hours |-> wf[i].hours,
         description |-> wf[i].description, startDate |-> wf[i].date,
         startTime |-> wf[i].startTime, endTime |-> wf[i].endTime,
         form |-> wf[i].form, shouldDelete |-> IsDeleteValue(wf[i].delete)]]

(* C16: a malformed row never aborts the batch: once a CSV file is parsed, *)
(* its well-formed rows (when they do not conflict with one another) are   *)
(* the batch handed to validation, whatever malformed rows the file holds. *)
C16_MalformedRowSkipped ==
  (format = "csv" /\ pc # "import" /\ validateTimeConflicts(WellFormedEntries) = 0)
  => /\ batch = WellFormedEntries
     /\ result # "error"

\* String.prototype.toLowerCase on the texts of the delete column
LowerCase(v) ==
  CASE v = "TRUE" -> "true"
    [] v = "Yes" -> "yes"
    [] OTHER -> v

\* the file was parsed and every row of it became an entry of the batch
AllRowsParsed ==
  format = "csv" /\ pc # "import" /\ result # "error" /\ Len(batch) = Len(rows)

JustParsed == format = "csv" /\ pc # "import" /\ calls = <<>>

\* parseCSV threw: the batch is rejected
Rejected == pc = "done" /\ result = "error" /\ calls = <<>>

\* two rows of one date, neither marked for deletion, with the same start
\* and the same end
FileHasIdenticalPair ==
  \E i, j \in 1..Len(rows) :
     /\ i < j
     /\ ~IsDeleteValue(rows[i].delete) /\ ~IsDeleteValue(rows[j].delete)
     /\ rows[i].date = rows[j].date
     /\ rows[i].startTime = rows[j].startTime
     /\ rows[i].endTime = rows[j].endTime

(* C18: the internal pass rejects a batch exactly when two of its entries  *)
(* of one date (not marked shouldDelete) have overlapping ranges that are  *)
(* not identical in start and end; two entries with the same start and end *)
(* are no conflict.                                                        *)
C18_IdenticalPairNoConflict ==
  JustParsed
  => (Rejected <=>
        \E i, j \in 1..Len(rows) :
           /\ i < j
           /\ ~IsDeleteValue(rows[i].delete) /\ ~IsDeleteValue(rows[j].delete)
           /\ rows[i].date = rows[j].date
           /\ rows[i].startTime < rows[j].endTime
           /\ rows[j].startTime < rows[i].endTime
           /\ ~(/\ rows[i].startTime = rows[j].startTime
                /\ rows[i].endTime = rows[j].endTime))

(* C18 as amended: the internal pass rejects a batch exactly when two of   *)
(* its entries of one date (not marked shouldDelete) have overlapping      *)
(* ranges; two entries with the same start and end overlap and reject the  *)
(* batch like any other.                                                   *)
C18_EveryOverlapConflicts ==
  JustParsed
  => (Rejected <=>
        \E i, j \in 1..Len(rows) :
           /\ i < j
           /\ ~IsDeleteValue(rows[i].delete) /\ ~IsDeleteValue(rows[j].delete)
           /\ rows[i].date = rows[j].date
           /\ rows[i].startTime < rows[j].endTime
           /\ rows[j].startTime < rows[i].endTime)

\* a file with two rows of the same start and end has been rejected
C18_Witness == JustParsed /\ Rejected /\ FileHasIdenticalPair

\* one range ends at exactly the instant the other starts
Touching(aStart, aEnd, bStart, bEnd) == aEnd = bStart \/ bEnd = aStart

\* every two rows of one date, neither marked for deletion, are back to back
AllRowsBackToBack ==
  \A i, j \in 1..Len(rows) :
     (/\ i < j
      /\ ~IsDeleteValue(rows[i].delete) /\ ~IsDeleteValue(rows[j].delete)
      /\ rows[i].date = rows[j].date)
     => Touching(rows[i].startTime, rows[i].endTime,
                 rows[j].startTime, rows[j].endTime)

\* the worklog of the classifier's list that carries an id
SnapshotWorklog(id) ==
  CHOOSE w \in Range(snapshot) : w.tempoWorklogId = id

\* entry i and worklog w of the same date are adjacent
Adjacent(importWL, w) ==
  /\ importWL.startDate = w.startDate
  /\ Touching(importWL.startTime, importWL.endTime,
              existingStart(w), existingEnd(w))

(* C19: two ranges of one date where one ends at exactly the instant the   *)
(* other starts are never treated as overlapping: a file whose entries are *)
(* back to back is not rejected by the internal pass, the external pass    *)
(* lists no worklog adjacent to an entry among its overlaps, and the       *)
(* classifier puts no worklog adjacent to an entry in the entry's replace  *)
(* list.                                                                   *)
C19_TouchingNeverOverlaps ==
  /\ (JustParsed /\ AllRowsBackToBack) => ~Rejected
  /\ LET fetched == recentWorklogs(getWorklogs(batch), ConfigUserAccountId)
         analysis == validateAgainstExistingWorklogs(batch, fetched)
     IN \A k \in 1..Len(analysis.overlaps) :
           \A w \in Range(fetched) :
              w.tempoWorklogId = analysis.overlaps[k][2]
              => ~Adjacent(batch[analysis.overlaps[k][1]], w)
  /\ \A j \in 1..Len(ops.replace) :
        \A id \in Range(ops.replace[j].conflictingWorklogs) :
           ~Adjacent(batch[ops.replace[j].entry], SnapshotWorklog(id))

\* a file of two back-to-back rows was accepted and classified, and the
\* classifier's list held a worklog adjacent to one of the entries
C19_Witness ==
  /\ format = "csv" /\ Classified
  /\ Len(rows) = 2 /\ Len(batch) = 2
  /\ ~IsDeleteValue(rows[1].delete) /\ ~IsDeleteValue(rows[2].delete)
  /\ Touching(rows[1].startTime, rows[1].endTime,
              rows[2].startTime, rows[2].endTime)
  /\ \E i \in 1..Len(batch) : \E w \in Range(snapshot) : Adjacent(batch[i], w)

\* the calls of this run that resolved an issue key
Resolves(issueKey) ==
  {c \in CallIndices :
     /\ calls[c].op \in {"create", "update"}
     /\ batch[calls[c].entry].issueKey = issueKey}

(* C20: within one process the resolver consults its source at most once   *)
(* for an issue key, a key that was not found included: every later        *)
(* resolve of the key is answered from the cache.                          *)
C20_OneLookupPerKey ==
  \A k \in FileIssues : lookups[k] <= 1

(* C20 as amended: within one process the resolver consults its source at  *)
(* most once for an issue key that the source resolves, and every later    *)
(* resolve of such a key is answered from the cache; a key that was not    *)
(* found is not put in the cache, and every resolve of it consults the     *)
(* source again.                                                           *)
C20_OneLookupPerResolvedKey ==
  \A k \in FileIssues :
     IF resolveIssue(k) # NoId
     THEN /\ lookups[k] <= 1
          /\ lookups[k] = 1 <=> Resolves(k) # {}
          /\ lookups[k] = 1 <=> k \in cache
     ELSE /\ lookups[k] = Cardinality(Resolves(k))
          /\ k \notin cache

\* a key of the table was resolved twice in one run with one lookup
C20_Witness ==
  \E k \in FileIssues :
     /\ resolveIssue(k) # NoId
     /\ Cardinality(Resolves(k)) = 2
     /\ lookups[k] = 1 /\ k \in cache

(* C21: every replace operation the classifier emits carries a non-empty   *)
(* list of conflicting worklogs.                                           *)
C21_ReplaceListNonEmpty ==
  \A j \in 1..Len(ops.replace) : Len(ops.replace[j].conflictingWorklogs) > 0

\* the classifier emitted a replace operation
C21_Witness == Classified /\ Len(ops.replace) > 0

\* the valid time ranges of the rows of the file
ValidRanges ==
  {<<rows[i].startTime, rows[i].endTime>> : i \in {j \in 1..Len(rows) :
      rows[j].startTime < rows[j].endTime}}

(* C22: the overlap check is symmetric: for any two valid ranges, range A  *)
(* overlaps range B exactly when range B overlaps range A.                 *)
C22_OverlapSymmetric ==
  \A a, b \in ValidRanges :
     overlaps(a[1], a[2], b[1], b[2]) <=> overlaps(b[1], b[2], a[1], a[2])

\* the internal pass compared two rows of different ranges that overlap, the
\* later one first in the file, and rejected the file
C22_Witness ==
  /\ JustParsed /\ Rejected
  /\ Len(rows) = 2
  /\ rows[1].form = StrictForm /\ rows[2].form = StrictForm
  /\ ~IsDeleteValue(rows[1].delete) /\ ~IsDeleteValue(rows[2].delete)
  /\ rows[1].startTime < rows[1].endTime /\ rows[2].startTime < rows[2].endTime
  /\ rows[2].startTime < rows[1].startTime
  /\ rows[1].startTime < rows[2].endTime /\ rows[2].startTime < rows[1].endTime

\* ids of the worklogs the update operations are to change
UpdateTargets == {ops.update[j].tempoWorklogId : j \in 1..Len(ops.update)}

(* C23: within one run no worklog of the store is both the target of an    *)
(* update operation and a delete target (in the delete bag or in the list  *)
(* of a replace operation), so that no update call is issued for a worklog *)
(* the run has deleted before.                                             *)
C23_UpdateTargetNeverDeleted ==
  /\ UpdateTargets \cap (DeleteTargets \cup ReplaceTargets) = {}
  /\ \A c, d \in CallIndices :
        (/\ d < c
         /\ calls[d].op = "delete" /\ calls[d].ok
         /\ calls[c].op = "update")
        => calls[c].id # calls[d].id

(* C24: within one run each id of a worklog is the argument of at most one *)
(* delete call: no id is in the lists of two replace operations, nor in    *)
(* both the delete bag and the list of a replace operation.                *)
C24_OneDeletePerWorklog ==
  /\ \A j, k \in 1..Len(ops.replace) :
        j # k => Range(ops.replace[j].conflictingWorklogs)
                   \cap Range(ops.replace[k].conflictingWorklogs) = {}
  /\ DeleteTargets \cap ReplaceTargets = {}
  /\ \A c, d \in CallIndices :
        (calls[c].op = "delete" /\ calls[d].op = "delete" /\ c # d)
        => calls[c].id # calls[d].id

\* the worklogs of the classifier's list that have the date, the start time
\* and the issue key of entry i
KeyMatches(i) ==
  {w \in Range(snapshot) :
     /\ w.startDate = batch[i].startDate
     /\ w.startTime = batch[i].startTime
     /\ extractIssueKeyFromWorklog(w) = batch[i].issueKey}

\* the worklogs of the classifier's list, other than w, that overlap entry i
OthersOverlapping(i, w) ==
  {v \in Range(snapshot) :
     /\ v # w
     /\ v.startDate = batch[i].startDate
     /\ batch[i].startTime < existingEnd(v)
     /\ existingStart(v) < batch[i].endTime}

\* entry i is emitted as a replace whose list holds id
ReplacedWith(i, id) ==
  \E j \in 1..Len(ops.replace) :
     ops.replace[j].entry = i /\ id \in Range(ops.replace[j].conflictingWorklogs)

\* entry i is not to be deleted and w is its only exact-key candidate
SoleCandidate(i, w) == ~batch[i].shouldDelete /\ KeyMatches(i) = {w}

(* C25: an exact-key candidate whose range differs from the entry's (for   *)
(* example by its duration) counts as an overlapping record: the entry is  *)
(* emitted as replace with the candidate in its list.                      *)
C25_CandidateOfOtherRangeReplaced ==
  Classified
  => \A i \in 1..Len(batch) : \A w \in Range(snapshot) :
        (SoleCandidate(i, w) /\ existingEnd(w) # batch[i].endTime)
        => ReplacedWith(i, w.tempoWorklogId)

(* C25 as amended: the exact-key candidate is left out of an entry's       *)
(* overlap set whatever its range; the entry is emitted as replace with    *)
(* the candidate in its list exactly when some other worklog overlaps the  *)
(* entry, and as update or noChange otherwise, also when the candidate's   *)
(* range differs from the entry's.                                         *)
C25_CandidateNeverOverlapsItself ==
  Classified
  => \A i \in 1..Len(batch) : \A w \in Range(snapshot) :
        SoleCandidate(i, w)
        => IF OthersOverlapping(i, w) # {}
           THEN ReplacedWith(i, w.tempoWorklogId)
           ELSE /\ InBag("replace", i) = 0
                /\ InBag("update", i) + InBag("noChange", i) = 1

\* an entry whose only candidate has another range, and which no other
\* worklog overlaps, was classified update
C25_Witness ==
  /\ Classified
  /\ \E i \in 1..Len(batch) : \E w \in Range(snapshot) :
        /\ SoleCandidate(i, w)
        /\ existingEnd(w) # batch[i].endTime
        /\ OthersOverlapping(i, w) = {}
        /\ InBag("update", i) = 1

\* ids of the worklogs of the classifier's list that overlap entry i
OverlappingIds(i) ==
  {v.tempoWorklogId : v \in {u \in Range(snapshot) :
      /\ u.startDate = batch[i].startDate
      /\ batch[i].startTime < existingEnd(u)
      /\ existingStart(u) < batch[i].endTime}}

\* the lists of the replace operations emitted for entry i
ReplaceListsOf(i) ==
  {ops.replace[j].conflictingWorklogs :
     j \in {k \in 1..Len(ops.replace) : ops.replace[k].entry = i}}

(* C26: an entry that is not to be deleted and has no exact-key candidate  *)
(* is classified replace exactly when a worklog kept by the filter, of the *)
(* same date, overlaps its range, and the list of the replace is then      *)
(* exactly the set of those worklogs; otherwise it is classified add. A    *)
(* worklog the filter removed, such as one of the system user, never turns *)
(* an add into a replace.                                                  *)
C26_ReplaceIffOverlapped ==
  Classified
  => /\ \A i \in 1..Len(batch) :
          (~batch[i].shouldDelete /\ KeyMatches(i) = {})
          => IF OverlappingIds(i) # {}
             THEN /\ InBag("replace", i) = 1 /\ InBag("add", i) = 0
                  /\ \A l \in ReplaceListsOf(i) :
                        /\ Range(l) = OverlappingIds(i)
                        /\ Len(l) = Cardinality(OverlappingIds(i))
             ELSE InBag("add", i) = 1 /\ InBag("replace", i) = 0
     /\ \A w \in remote : w.author = SystemUser
                          => /\ w \notin Range(snapshot)
                             /\ w.tempoWorklogId \notin ReplaceTargets

\* an entry without candidate, overlapped by a worklog of the user and by
\* one of the system user, was classified replace with the first alone
C26_Witness ==
  /\ Classified
  /\ \E i \in 1..Len(batch) : \E w \in remote :
        /\ ~batch[i].shouldDelete /\ KeyMatches(i) = {}
        /\ w.author = SystemUser
        /\ w.startDate = batch[i].startDate
        /\ batch[i].startTime < existingEnd(w)
        /\ existingStart(w) < batch[i].endTime
        /\ Cardinality(OverlappingIds(i)) = 1
        /\ InBag("replace", i) = 1

\* entry i is emitted as an update of the worklog id
UpdatedAs(i, id) ==
  \E j \in 1..Len(ops.update) :
     ops.update[j].entry = i /\ ops.update[j].tempoWorklogId = id

(* C27: an entry that is not to be deleted, has an exact-key candidate and *)
(* is overlapped by no other worklog is classified noChange exactly when   *)
(* its duration, description, start time, date and issue key all equal the *)
(* candidate's; otherwise it is classified update with the candidate's id. *)
C27_NoChangeIffAllEqual ==
  Classified
  => \A i \in 1..Len(batch) : \A w \in Range(snapshot) :
        (SoleCandidate(i, w) /\ OthersOverlapping(i, w) = {})
        => IF /\ batch[i].hours = w.timeSpent
              /\ batch[i].description = w.description
              /\ batch[i].startTime = w.startTime
              /\ batch[i].startDate = w.startDate
              /\ batch[i].issueKey = extractIssueKeyFromWorklog(w)
           THEN /\ InBag("noChange", i) = 1
                /\ InBag("update", i) = 0 /\ InBag("replace", i) = 0
                /\ InBag("add", i) = 0
           ELSE /\ InBag("update", i) = 1 /\ UpdatedAs(i, w.tempoWorklogId)
                /\ InBag("noChange", i) = 0 /\ InBag("replace", i) = 0
                /\ InBag("add", i) = 0

\* an entry that differs from its candidate in the description alone was
\* classified update
C27_Witness ==
  /\ Classified
  /\ \E i \in 1..Len(batch) : \E w \in Range(snapshot) :
        /\ SoleCandidate(i, w) /\ OthersOverlapping(i, w) = {}
        /\ batch[i].hours = w.timeSpent
        /\ batch[i].description # w.description
        /\ UpdatedAs(i, w.tempoWorklogId)

\* the ids the delete operations emitted for entry i carry
DeletedAs(i) ==
  {ops.delete[j].tempoWorklogId :
     j \in {k \in 1..Len(ops.delete) : ops.delete[k].entry = i}}

(* C28: for an entry marked shouldDelete, when the worklogs kept by the    *)
(* filter hold one with the entry's date, start time and issue key,        *)
(* exactly one delete operation is emitted, carrying the id of such a      *)
(* worklog; when they hold none, no operation is emitted, no remote call   *)
(* is made for the entry and no error is raised.                           *)
C28_DeleteEntryClassified ==
  Classified
  => \A i \in 1..Len(batch) :
        batch[i].shouldDelete
        => /\ InBag("add", i) = 0 /\ InBag("update", i) = 0
           /\ InBag("replace", i) = 0 /\ InBag("noChange", i) = 0
           /\ IF KeyMatches(i) # {}
              THEN /\ InBag("delete", i) = 1
                   /\ DeletedAs(i) \subseteq {w.tempoWorklogId : w \in KeyMatches(i)}
              ELSE /\ InBag("delete", i) = 0
                   /\ \A c \in CallIndices : calls[c].entry # i
                   /\ result # "error"
                   /\ Len(batch) = 1 => (pc = "done" /\ result = "ok")

\* an entry marked shouldDelete whose key a kept worklog has was classified
\* delete
C28_Witness ==
  /\ Classified
  /\ \E i \in 1..Len(batch) :
        /\ batch[i].shouldDelete
        /\ KeyMatches(i) # {}
        /\ InBag("delete", i) = 1

\* the candidate of a replace operation: the exact match, which the
\* classifier appends to the conflicting worklogs as the last of the list
CandidateOf(i) ==
  {ops.replace[j].conflictingWorklogs[Len(ops.replace[j].conflictingWorklogs)] :
     j \in {k \in 1..Len(ops.replace) : ops.replace[k].entry = i}}

\* entry i is not to be deleted and several worklogs have its key
HasDuplicates(i) == ~batch[i].shouldDelete /\ Cardinality(KeyMatches(i)) > 1

\* every worklog at the key of entry i is in the one replace list of entry i
AllKeyMatchesReplaced(i) ==
  /\ InBag("replace", i) = 1
  /\ \A w \in KeyMatches(i) : ReplacedWith(i, w.tempoWorklogId)

IdenticalAtDefault(i, w) ==
  /\ w.startTime = NoStart
  /\ batch[i].startTime = DefaultStartTime
  /\ w.startDate = batch[i].startDate
  /\ extractIssueKeyFromWorklog(w) = batch[i].issueKey
  /\ w.timeSpent = batch[i].hours
  /\ w.description = batch[i].description

(* C30: a worklog without start time is taken as starting at the default   *)
(* time (09:00:00) everywhere: the exact-key lookup of an entry that       *)
(* starts at the default time finds it, so that an entry identical to such *)
(* a worklog, and overlapped by no other, is classified noChange.          *)
C30_NoStartMatchesDefault ==
  Classified
  => \A i \in 1..Len(batch) : \A w \in Range(snapshot) :
        (/\ ~batch[i].shouldDelete
         /\ IdenticalAtDefault(i, w)
         /\ OthersOverlapping(i, w) = {})
        => /\ InBag("noChange", i) = 1
           /\ InBag("replace", i) = 0 /\ InBag("add", i) = 0
           /\ InBag("update", i) = 0

====
